---- MODULE Spec2Model ----
(***************************************************************************)
(* Model of cargo-euler's scraping core (src/src/main.rs):                  *)
(*   parse_from_relative_link, Levels::from_elements,                       *)
(*   Problems::from_elements, and Progress (which runs both, in field      *)
(*   order, on one document).                                               *)
(*                                                                         *)
(* Strings that the code takes apart (hrefs) are sequences of one-character *)
(* strings.  Option<T> is a sequence of length 0 (None) or 1 (Some).        *)
(* A panic ends the run; its kind is recorded under the name the            *)
(* specification's error taxonomy gives it.                                 *)
(***************************************************************************)
EXTENDS Integers, Sequences, FiniteSets, TLC

\* Bounds of the model.
MaxElems == 2       \* elements of the document that the two iterators yield
MaxRuns == 2        \* executions of the program on the same document
MaxHrefLen == 4     \* length of the strings given to the parser alone

VARIABLES
    levelEls,       \* the elements `iter` yields to Levels, as far as read
    levelEnd,       \* TRUE once that iterator is known to be exhausted there
    cellEls,        \* the elements `iter` yields to Problems, as far as read
    cellEnd,        \* TRUE once that iterator is known to be exhausted there
    run,            \* number of the current execution
    pc,             \* position in the code
    pos,            \* elements the current `for` loop has taken
    levels,         \* local `levels` of Levels::from_elements
    problems,       \* local `problems` of Problems::from_elements
    srcIdx,         \* history: the parsed index each pushed entry came with
    level,          \* local `level` (the parsed index)
    solved,         \* local `solved: Option<bool>`
    classesLeft,    \* classes the iteration at line 128 has yet to visit
    warns,          \* classes warn!() was called with, for the current cell
    linksParsed,    \* history: calls of parse_from_relative_link in this call
    log,            \* history: how each call of from_elements ended
    link,           \* the arguments of a lone call of the parser
    linkResult      \* Option: what that call returned

vars == <<levelEls, levelEnd, cellEls, cellEnd, run, pc, pos, levels, problems,
          srcIdx, level, solved, classesLeft, warns, linksParsed, log,
          link, linkResult>>

extractVars == <<levelEls, levelEnd, cellEls, cellEnd, run, pc, pos, levels,
                 problems, srcIdx, level, solved, classesLeft, warns,
                 linksParsed, log>>

----------------------------------------------------------------------------
\* Strings and the Link Index Parser (lines 48-58)

DigitChars == <<"0", "1", "2", "3", "4", "5", "6", "7", "8", "9">>

IsDigit(c) == \E i \in 1..Len(DigitChars) : DigitChars[i] = c

\* char::to_digit(10) of a decimal digit
DigitVal(c) == (CHOOSE i \in 1..Len(DigitChars) : DigitChars[i] = c) - 1

\* str::split('='): the parts between the delimiters; n delimiters give
\* n + 1 parts, and the empty string gives one empty part.
RECURSIVE Split(_, _)
Split(s, d) ==
    IF s = <<>> THEN << <<>> >>
    ELSE LET rest == Split(Tail(s), d)
         IN  IF Head(s) = d THEN << <<>> >> \o rest
             ELSE << <<Head(s)>> \o Head(rest) >> \o Tail(rest)

\* A mutant of CollectTuple2: the first two items are taken and the rest is
\* dropped (next_tuple in place of collect_tuple).
NextTuple2(items) == IF Len(items) >= 2 THEN <<SubSeq(items, 1, 2)>> ELSE <<>>

\* Itertools::collect_tuple into a pair: Some only for exactly two items.
CollectTuple2(items) == IF Len(items) = 2 THEN <<items>> ELSE <<>>

\* Itertools::collect_tuple into a 1-tuple: Some only for exactly one item.
CollectTuple1(items) == IF Len(items) = 1 THEN <<items>> ELSE <<>>

\* The digit loop of usize::from_str: result = result * 10 + digit, failing
\* at the first character that is no digit.  None (<<>>) is InvalidDigit.
\* (The checked arithmetic cannot fail on fewer than 20 digits.)
RECURSIVE FromDigits(_, _)
FromDigits(acc, s) ==
    IF s = <<>> THEN <<acc>>
    ELSE IF ~IsDigit(Head(s)) THEN <<>>
    ELSE FromDigits(acc * 10 + DigitVal(Head(s)), Tail(s))

\* str::parse::<usize>() (line 55): Err (<<>>) for the empty string, for a lone
\* sign and for any character that is no digit; a leading '+' is accepted,
\* a leading '-' is not (usize is unsigned).
ParseUsize(s) ==
    IF s = <<>> THEN <<>>
    ELSE LET digits == IF Head(s) = "+" THEN Tail(s) ELSE s
         IN  IF digits = <<>> THEN <<>> ELSE FromDigits(0, digits)

LinkOk(n) == [ok |-> TRUE, val |-> n, err |-> ""]
LinkErr(e) == [ok |-> FALSE, val |-> 0, err |-> e]

\* parse_from_relative_link(thing, href); `thing` is shadowed by the
\* pattern at line 55 and never read.
ParseFromRelativeLink(thing, href) ==
    LET t == CollectTuple2(Split(href, "="))
    IN  IF t # <<>>
        THEN LET r == ParseUsize(t[1][2])
             IN  IF r # <<>> THEN LinkOk(r[1]) ELSE LinkErr("ParseFailed")
        ELSE LinkErr("SplitFailed")

----------------------------------------------------------------------------
\* The element tree (scraper's Node::Element / Node::Text behind a NodeRef)

El(name, href, classes, kids) ==
    [kind |-> "Element", name |-> name, text |-> "", href |-> href,
     classes |-> classes, kids |-> kids]

Tx(text) ==
    [kind |-> "Text", name |-> "", text |-> text, href |-> <<>>,
     classes |-> {}, kids |-> <<>>]

Leaf(name) == El(name, <<>>, {}, <<>>)

IdxHref(n) == <<"p", "=", DigitChars[n + 1]>>

\* href attributes: absent, without '=', with a non-numeric index, and with
\* the indices 0 .. MaxElems + 1
Hrefs ==
    {<<>>} \cup {<<h>> : h \in {<<"p">>, <<"p", "=", "s">>}
                               \cup {IdxHref(n) : n \in 0..(MaxElems + 1)}}

Texts == {"alpha", "beta"}

\* children of an anchor's second child: the expected shape and deviations
DescKids ==
    {<<Leaf("div"), Tx(t)>> : t \in Texts}
    \cup {<<>>, <<Leaf("div")>>, <<Leaf("span"), Tx("alpha")>>,
          <<Leaf("div"), Leaf("div")>>, <<Tx("alpha"), Tx("beta")>>,
          <<Leaf("div"), Tx("alpha"), Tx("beta")>>}

FirstKids == {Leaf("div"), Leaf("img"), Leaf("span"), Tx("alpha")}

SecondKids == {El("span", <<>>, {}, k) : k \in DescKids} \cup {Tx("beta")}

AnchorKids ==
    {<<f, s>> : f \in FirstKids, s \in SecondKids}
    \cup {<<>>, <<Leaf("div")>>,
          <<Leaf("img"), El("span", <<>>, {}, <<Leaf("div"), Tx("alpha")>>),
            Tx("beta")>>}

\* what the iterator given to Levels::from_elements may yield
Anchors == {El("a", h, {}, k) : h \in Hrefs, k \in AnchorKids}

ClassNames == {"problem_solved", "problem_unsolved", "extra-style"}

CellKids ==
    {<<El("a", h, {}, <<>>)>> : h \in Hrefs}
    \cup {<<>>, <<Leaf("div")>>, <<Tx("alpha")>>,
          <<El("a", <<IdxHref(1)>>, {}, <<>>), El("a", <<IdxHref(2)>>, {}, <<>>)>>}

\* what the iterator given to Problems::from_elements may yield
Cells == {El("td", <<>>, c, k) : c \in SUBSET ClassNames, k \in CellKids}

----------------------------------------------------------------------------
\* Helpers of the two extractors

\* A mutant of IndexMismatch: only an index beyond the expected one counts.
IndexMismatchGapOnly(lvl, len) == lvl > len + 1

\* A mutant of IndexMismatch: the index is compared with the count itself.
IndexMismatchOffByOne(lvl, len) == lvl # len

\* lines 70-71 and 149-150: `level != expected_idx`, where
\* expected_idx = len.checked_add(1).unwrap()
IndexMismatch(lvl, len) == lvl # len + 1

\* the panic of `.unwrap()` on the parser's Err (lines 69, 148)
LinkPanic(e) == IF e = "SplitFailed" THEN "FormatError" ELSE "NumericError"

\* lines 75-80: the anchor has exactly two children, the first an Element
AnchorShapeOk(el) ==
    LET t == CollectTuple2(el.kids)
    IN  t # <<>> /\ t[1][1].kind = "Element"

\* A mutant of DescriptionOf: the title's tag is not looked at.
DescriptionOfAnyTitle(span) ==
    LET t == CollectTuple2(span.kids)
    IN  IF t # <<>> /\ t[1][1].kind = "Element" /\ t[1][2].kind = "Text"
        THEN <<t[1][2].text>>
        ELSE <<>>

\* lines 81-95: Some(text) when the span's children are an Element named
\* "div" and a Text, None (the panic at line 91) otherwise
DescriptionOf(span) ==
    LET t == CollectTuple2(span.kids)
    IN  IF t # <<>> /\ t[1][1].kind = "Element" /\ t[1][2].kind = "Text"
           /\ t[1][1].name = "div"
        THEN <<t[1][2].text>>
        ELSE <<>>

\* A mutant of CompletedOf: the two markers are taken for each other.
CompletedOfSwapped(tag) ==
    IF tag.name = "div" THEN <<TRUE>>
    ELSE IF tag.name = "img" THEN <<FALSE>>
    ELSE <<>>

\* lines 96-103: None is the panic at line 99
CompletedOf(tag) ==
    IF tag.name = "div" THEN <<FALSE>>
    ELSE IF tag.name = "img" THEN <<TRUE>>
    ELSE <<>>

\* A mutant of SolvedValue: a class that is not problem_solved counts as
\* unsolved.
SolvedValueDefault(class) ==
    IF class = "problem_solved" THEN <<TRUE>> ELSE <<FALSE>>

\* lines 130-140: Some(value) for a recognized class, None for the others
SolvedValue(class) ==
    IF class = "problem_solved" THEN <<TRUE>>
    ELSE IF class = "problem_unsolved" THEN <<FALSE>>
    ELSE <<>>

\* lines 145-146: exactly one child, an Element named "a"
CellShapeOk(el) ==
    LET t == CollectTuple1(el.kids)
    IN  t # <<>> /\ t[1][1].kind = "Element" /\ t[1][1].name = "a"

anchor_el == levelEls[pos]

problem_el == cellEls[pos]

\* how a call of from_elements ended: Ok(collection) or a panic
Returned(fn, val) ==
    [run |-> run, fn |-> fn, ok |-> TRUE, err |-> "", at |-> pos, val |-> val]

Panicked(fn, e) ==
    [run |-> run, fn |-> fn, ok |-> FALSE, err |-> e, at |-> pos, val |-> <<>>]

\* a panic unwinds out of from_elements and main: the process ends
Abort(fn, e) ==
    /\ log' = Append(log, Panicked(fn, e))
    /\ pc' = "exit"

----------------------------------------------------------------------------
\* The program: Progress::from_html (lines 166-172, 189) builds `levels` and
\* then `problems`; a later execution reads the same document again.

\* line 62: `let mut levels = Vec::new();`
FreshLevels == <<>>

\* A mutant of FreshProblems: the accumulator outlives the call.
StaleProblems == problems

\* line 123: `let mut problems = Vec::new();`
FreshProblems == <<>>

Init ==
    /\ levelEls = <<>> /\ levelEnd = FALSE
    /\ cellEls = <<>> /\ cellEnd = FALSE
    /\ run = 1
    /\ pc = "main"
    /\ pos = 0
    /\ levels = <<>> /\ problems = <<>> /\ srcIdx = <<>>
    /\ level = 0
    /\ solved = <<>> /\ classesLeft = {} /\ warns = {}
    /\ linksParsed = 0
    /\ log = <<>>
    /\ link = [thing |-> "level", href |-> <<>>]
    /\ linkResult = <<>>

\* Levels::from_elements is entered (lines 61-64)
L_Enter ==
    /\ pc = "main"
    /\ levels' = FreshLevels
    /\ srcIdx' = <<>>
    /\ pos' = 0
    /\ linksParsed' = 0
    /\ pc' = "L_for"
    /\ UNCHANGED <<levelEls, levelEnd, cellEls, cellEnd, run, problems, level,
                   solved, classesLeft, warns, log, link, linkResult>>

\* line 65: the iterator yields its next element
L_Fetch ==
    /\ pc = "L_for"
    /\ \/ pos < Len(levelEls) /\ UNCHANGED levelEls
       \/ /\ pos = Len(levelEls) /\ ~levelEnd
          /\ Len(levelEls) + Len(cellEls) < MaxElems
          /\ \E a \in Anchors : levelEls' = Append(levelEls, a)
    /\ pos' = pos + 1
    /\ pc' = "L_link"
    /\ UNCHANGED <<levelEnd, cellEls, cellEnd, run, levels, problems, srcIdx,
                   level, solved, classesLeft, warns, linksParsed, log,
                   link, linkResult>>

\* lines 68-73: href, its index, and the sequence check
L_Link ==
    /\ pc = "L_link"
    /\ LET attr == anchor_el.href
       IN  IF attr = <<>>
           THEN /\ Abort("Levels", "MissingAttributeError")
                /\ UNCHANGED <<level, linksParsed>>
           ELSE LET r == ParseFromRelativeLink("level", attr[1])
                IN  /\ linksParsed' = linksParsed + 1
                    /\ IF ~r.ok
                       THEN Abort("Levels", LinkPanic(r.err)) /\ UNCHANGED level
                       ELSE /\ level' = r.val
                            /\ IF IndexMismatch(r.val, Len(levels))
                               THEN Abort("Levels", "SequenceGapError")
                               ELSE pc' = "L_match" /\ UNCHANGED log
    /\ UNCHANGED <<levelEls, levelEnd, cellEls, cellEnd, run, pos, levels,
                   problems, srcIdx, solved, classesLeft, warns, link, linkResult>>

\* A mutant of L_Match: an anchor of another shape is skipped.
L_MatchSkip ==
    /\ pc = "L_match"
    /\ pc' = IF AnchorShapeOk(anchor_el) THEN "L_level" ELSE "L_for"
    /\ UNCHANGED <<levelEls, levelEnd, cellEls, cellEnd, run, pos, levels,
                   problems, srcIdx, level, solved, classesLeft, warns,
                   linksParsed, log, link, linkResult>>

\* lines 75-80 and 105-108: the anchor's children as a pair
L_Match ==
    /\ pc = "L_match"
    /\ IF AnchorShapeOk(anchor_el)
       THEN pc' = "L_level" /\ UNCHANGED log
       ELSE Abort("Levels", "UnrecognizedAnchorFormat")
    /\ UNCHANGED <<levelEls, levelEnd, cellEls, cellEnd, run, pos, levels,
                   problems, srcIdx, level, solved, classesLeft, warns,
                   linksParsed, link, linkResult>>

\* A mutant of L_Level: `completed` is evaluated before `description`.
L_LevelCompletedFirst ==
    /\ pc = "L_level"
    /\ LET description == DescriptionOf(anchor_el.kids[2])
           completed == CompletedOf(anchor_el.kids[1])
       IN  IF completed = <<>>
           THEN /\ Abort("Levels", "UnrecognizedCompletionMarkerError")
                /\ UNCHANGED <<levels, srcIdx>>
           ELSE IF description = <<>>
           THEN /\ Abort("Levels", "UnrecognizedDescriptionFormatError")
                /\ UNCHANGED <<levels, srcIdx>>
           ELSE /\ levels' = Append(levels, [description |-> description[1],
                                             completed |-> completed[1]])
                /\ srcIdx' = Append(srcIdx, level)
                /\ pc' = "L_for"
                /\ UNCHANGED log
    /\ UNCHANGED <<levelEls, levelEnd, cellEls, cellEnd, run, pos, problems,
                   level, solved, classesLeft, warns, linksParsed, link,
                   linkResult>>

\* lines 80-104: the Level literal, its fields evaluated in the order
\* written (description, then completed), and the push
L_Level ==
    /\ pc = "L_level"
    /\ LET description == DescriptionOf(anchor_el.kids[2])
           completed == CompletedOf(anchor_el.kids[1])
       IN  IF description = <<>>
           THEN /\ Abort("Levels", "UnrecognizedDescriptionFormatError")
                /\ UNCHANGED <<levels, srcIdx>>
           ELSE IF completed = <<>>
           THEN /\ Abort("Levels", "UnrecognizedCompletionMarkerError")
                /\ UNCHANGED <<levels, srcIdx>>
           ELSE /\ levels' = Append(levels, [description |-> description[1],
                                             completed |-> completed[1]])
                /\ srcIdx' = Append(srcIdx, level)
                /\ pc' = "L_for"
                /\ UNCHANGED log
    /\ UNCHANGED <<levelEls, levelEnd, cellEls, cellEnd, run, pos, problems,
                   level, solved, classesLeft, warns, linksParsed, link,
                   linkResult>>

\* lines 65 and 112: the iterator is exhausted, Ok(Levels(levels))
L_Return ==
    /\ pc = "L_for"
    /\ pos = Len(levelEls)
    /\ \/ levelEnd /\ UNCHANGED levelEnd
       \/ ~levelEnd /\ levelEnd' = TRUE
    /\ log' = Append(log, Returned("Levels", levels))
    /\ pc' = "P_enter"
    /\ UNCHANGED <<levelEls, cellEls, cellEnd, run, pos, levels, problems,
                   srcIdx, level, solved, classesLeft, warns, linksParsed,
                   link, linkResult>>

\* Problems::from_elements is entered (lines 120-125)
P_Enter ==
    /\ pc = "P_enter"
    /\ problems' = FreshProblems
    /\ srcIdx' = <<>>
    /\ pos' = 0
    /\ linksParsed' = 0
    /\ pc' = "P_for"
    /\ UNCHANGED <<levelEls, levelEnd, cellEls, cellEnd, run, levels, level,
                   solved, classesLeft, warns, log, link, linkResult>>

\* lines 126-128: the next cell, `solved = None`, the class iteration begins
P_Fetch ==
    /\ pc = "P_for"
    /\ \/ pos < Len(cellEls) /\ UNCHANGED cellEls
       \/ /\ pos = Len(cellEls) /\ ~cellEnd
          /\ Len(levelEls) + Len(cellEls) < MaxElems
          /\ \E c \in Cells : cellEls' = Append(cellEls, c)
    /\ pos' = pos + 1
    /\ solved' = <<>>
    /\ classesLeft' = cellEls'[pos'].classes
    /\ warns' = {}
    /\ pc' = "P_class"
    /\ UNCHANGED <<levelEls, levelEnd, cellEnd, run, levels, problems, srcIdx,
                   level, linksParsed, log, link, linkResult>>

\* lines 128-143: one iteration over the class set, in the set's own order
P_Class ==
    /\ pc = "P_class"
    /\ \E class \in classesLeft :
          /\ classesLeft' = classesLeft \ {class}
          /\ LET solved_value == SolvedValue(class)
             IN  IF solved_value = <<>>
                 THEN /\ warns' = warns \cup {class}
                      /\ UNCHANGED <<solved, pc, log>>
                 ELSE IF solved # <<>>
                 THEN /\ Abort("Problems", "AmbiguousOrMissingStatusError")
                      /\ UNCHANGED <<solved, warns>>
                 ELSE /\ solved' = solved_value
                      /\ UNCHANGED <<warns, pc, log>>
    /\ UNCHANGED <<levelEls, levelEnd, cellEls, cellEnd, run, pos, levels,
                   problems, srcIdx, level, linksParsed, link, linkResult>>

\* A mutant of P_Expect: a missing status defaults to unsolved.
P_ExpectDefault ==
    /\ pc = "P_class"
    /\ classesLeft = {}
    /\ solved' = IF solved = <<>> THEN <<FALSE>> ELSE solved
    /\ pc' = "P_match"
    /\ UNCHANGED <<levelEls, levelEnd, cellEls, cellEnd, run, pos, levels,
                   problems, srcIdx, level, classesLeft, warns, linksParsed,
                   log, link, linkResult>>

\* line 144: `solved.expect(..)` once the classes are exhausted
P_Expect ==
    /\ pc = "P_class"
    /\ classesLeft = {}
    /\ IF solved = <<>>
       THEN Abort("Problems", "AmbiguousOrMissingStatusError")
       ELSE pc' = "P_match" /\ UNCHANGED log
    /\ UNCHANGED <<levelEls, levelEnd, cellEls, cellEnd, run, pos, levels,
                   problems, srcIdx, level, solved, classesLeft, warns,
                   linksParsed, link, linkResult>>

\* lines 145-146 and 155-158: the cell's children as a 1-tuple
P_Match ==
    /\ pc = "P_match"
    /\ IF CellShapeOk(problem_el)
       THEN pc' = "P_link" /\ UNCHANGED log
       ELSE Abort("Problems", "UnrecognizedCellStructureError")
    /\ UNCHANGED <<levelEls, levelEnd, cellEls, cellEnd, run, pos, levels,
                   problems, srcIdx, level, solved, classesLeft, warns,
                   linksParsed, link, linkResult>>

\* lines 147-153: href, its index, the sequence check and the push
P_Link ==
    /\ pc = "P_link"
    /\ LET attr == problem_el.kids[1].href
       IN  IF attr = <<>>
           THEN /\ Abort("Problems", "MissingAttributeError")
                /\ UNCHANGED <<level, linksParsed, problems, srcIdx>>
           ELSE LET r == ParseFromRelativeLink("problem", attr[1])
                IN  /\ linksParsed' = linksParsed + 1
                    /\ IF ~r.ok
                       THEN /\ Abort("Problems", LinkPanic(r.err))
                            /\ UNCHANGED <<level, problems, srcIdx>>
                       ELSE /\ level' = r.val
                            /\ IF IndexMismatch(r.val, Len(problems))
                               THEN /\ Abort("Problems", "SequenceGapError")
                                    /\ UNCHANGED <<problems, srcIdx>>
                               ELSE /\ problems' = Append(problems, solved[1])
                                    /\ srcIdx' = Append(srcIdx, r.val)
                                    /\ pc' = "P_for"
                                    /\ UNCHANGED log
    /\ UNCHANGED <<levelEls, levelEnd, cellEls, cellEnd, run, pos, levels,
                   solved, classesLeft, warns, link, linkResult>>

\* lines 126 and 162: the iterator is exhausted, Ok(Problems(problems))
P_Return ==
    /\ pc = "P_for"
    /\ pos = Len(cellEls)
    /\ \/ cellEnd /\ UNCHANGED cellEnd
       \/ ~cellEnd /\ cellEnd' = TRUE
    /\ log' = Append(log, Returned("Problems", problems))
    /\ pc' = "exit"
    /\ UNCHANGED <<levelEls, levelEnd, cellEls, run, pos, levels, problems,
                   srcIdx, level, solved, classesLeft, warns, linksParsed,
                   link, linkResult>>

\* the program is executed again on the same document (lines 174-192)
Rerun ==
    /\ pc = "exit"
    /\ run < MaxRuns
    /\ run' = run + 1
    /\ pc' = "main"
    /\ UNCHANGED <<levelEls, levelEnd, cellEls, cellEnd, pos, levels, problems,
                   srcIdx, level, solved, classesLeft, warns, linksParsed, log,
                   link, linkResult>>

Next ==
    \/ L_Enter \/ L_Fetch \/ L_Link \/ L_Match \/ L_Level \/ L_Return
    \/ P_Enter \/ P_Fetch \/ P_Class \/ P_Expect \/ P_Match \/ P_Link
    \/ P_Return \/ Rerun

Spec == Init /\ [][Next]_vars

----------------------------------------------------------------------------
\* The parser on its own, over every string of at most MaxHrefLen characters

Chars == {"p", "=", "0", "1", "7", "+", "-", "s"}

Strings == UNION {[1..n -> Chars] : n \in 0..MaxHrefLen}

InitParse ==
    /\ levelEls = <<>> /\ levelEnd = FALSE
    /\ cellEls = <<>> /\ cellEnd = FALSE
    /\ run = 1
    /\ pc = "parse"
    /\ pos = 0
    /\ levels = <<>> /\ problems = <<>> /\ srcIdx = <<>>
    /\ level = 0
    /\ solved = <<>> /\ classesLeft = {} /\ warns = {}
    /\ linksParsed = 0
    /\ log = <<>>
    /\ link \in [thing : {"level", "problem"}, href : Strings]
    /\ linkResult = <<>>

\* one call of parse_from_relative_link (lines 48-58)
ParseLink ==
    /\ pc = "parse"
    /\ linkResult = <<>>
    /\ linkResult' = <<ParseFromRelativeLink(link.thing, link.href)>>
    /\ UNCHANGED <<extractVars, link>>

NextParse == ParseLink

SpecParse == InitParse /\ [][NextParse]_vars

----------------------------------------------------------------------------
\* Vocabulary of the properties, stated on the document and not through the
\* operators above.

LevelLog == {i \in DOMAIN log : log[i].fn = "Levels"}

ProblemLog == {i \in DOMAIN log : log[i].fn = "Problems"}

LastLog == log[Len(log)]

\* the href is <name>=<digit> with the digit of n
HrefHasIndex(h, n) ==
    h # <<>> /\ Len(h[1]) = 3 /\ h[1][2] = "=" /\ h[1][3] = DigitChars[n + 1]

HrefHasSomeIndex(h) == \E n \in 0..9 : HrefHasIndex(h, n)

EqualsSigns(str) == Cardinality({i \in DOMAIN str : str[i] = "="})

\* exactly two children, the first of them an element
TwoKidsFirstElement(a) == Len(a.kids) = 2 /\ a.kids[1].kind = "Element"

\* the second child has exactly the children (element "div", text node)
DescShape(a) ==
    /\ Len(a.kids[2].kids) = 2
    /\ a.kids[2].kids[1].kind = "Element" /\ a.kids[2].kids[1].name = "div"
    /\ a.kids[2].kids[2].kind = "Text"

MarkerKnown(a) == a.kids[1].name \in {"div", "img"}

WellFormedAnchor(a) == TwoKidsFirstElement(a) /\ MarkerKnown(a) /\ DescShape(a)

ValidAnchor(a, k) == HrefHasIndex(a.href, k) /\ WellFormedAnchor(a)

LevelFrom(a) ==
    [description |-> a.kids[2].kids[2].text, completed |-> a.kids[1].name = "img"]

OneStatus(c) ==
    Cardinality(c.classes \cap {"problem_solved", "problem_unsolved"}) = 1

OneAnchorKid(c) ==
    Len(c.kids) = 1 /\ c.kids[1].kind = "Element" /\ c.kids[1].name = "a"

ValidCell(c, k) ==
    OneStatus(c) /\ OneAnchorKid(c) /\ HrefHasIndex(c.kids[1].href, k)

\* the error of the first check that cell c fails as the k-th cell, the
\* checks taken in the order status, child structure, href; "" if none
CellError(c, k) ==
    IF ~OneStatus(c) THEN "AmbiguousOrMissingStatusError"
    ELSE IF ~OneAnchorKid(c) THEN "UnrecognizedCellStructureError"
    ELSE IF c.kids[1].href = <<>> THEN "MissingAttributeError"
    ELSE IF EqualsSigns(c.kids[1].href[1]) # 1 THEN "FormatError"
    ELSE IF ~HrefHasSomeIndex(c.kids[1].href) THEN "NumericError"
    ELSE IF ~HrefHasIndex(c.kids[1].href, k) THEN "SequenceGapError"
    ELSE ""

InLevels == pc \in {"L_for", "L_link", "L_match", "L_level", "P_enter"}

InProblems == pc \in {"P_for", "P_class", "P_match", "P_link"}

----------------------------------------------------------------------------
\* C1: in both extractors, after every processed element and in the returned
\* collection, the entry at position i (1-based) was pushed with parsed index
\* i and comes from the i-th element, whose href carries the index i: the
\* accepted indices are exactly 1, 2, ..., len.
C1_IndexIsPosition ==
    /\ InLevels =>
          /\ Len(srcIdx) = Len(levels)
          /\ \A i \in 1..Len(levels) :
                /\ srcIdx[i] = i
                /\ HrefHasIndex(levelEls[i].href, i)
                /\ levels[i] = LevelFrom(levelEls[i])
    /\ InProblems =>
          /\ Len(srcIdx) = Len(problems)
          /\ \A i \in 1..Len(problems) :
                /\ srcIdx[i] = i
                /\ HrefHasIndex(cellEls[i].kids[1].href, i)
    /\ \A j \in LevelLog : log[j].ok =>
          \A i \in 1..Len(log[j].val) : HrefHasIndex(levelEls[i].href, i)
    /\ \A j \in ProblemLog : log[j].ok =>
          \A i \in 1..Len(log[j].val) :
             HrefHasIndex(cellEls[i].kids[1].href, i)

C1_Witness ==
    /\ pc = "L_for" /\ Len(levels) = 2 /\ srcIdx = <<1, 2>>
    /\ levels[1] # levels[2]

\* C2 as stated: whenever the anchors' hrefs carry 1 .. N in document order,
\* Levels::from_elements returns N levels, the k-th from the k-th anchor.
C2_AsStated ==
    \A j \in LevelLog :
       (\A k \in 1..Len(levelEls) : HrefHasIndex(levelEls[k].href, k)) =>
          /\ log[j].ok
          /\ Len(log[j].val) = Len(levelEls)
          /\ \A k \in 1..Len(levelEls) : log[j].val[k] = LevelFrom(levelEls[k])

\* C2, amended: whenever the anchors' hrefs carry 1 .. N in document order
\* and every anchor has the expected children (two, the first an element
\* tagged div or img, the second with the children div element and text),
\* Levels::from_elements returns N levels, the k-th from the k-th anchor.
C2_InSequenceWellFormed ==
    \A j \in LevelLog :
       (\A k \in 1..Len(levelEls) : ValidAnchor(levelEls[k], k)) =>
          /\ log[j].ok
          /\ Len(log[j].val) = Len(levelEls)
          /\ \A k \in 1..Len(levelEls) : log[j].val[k] = LevelFrom(levelEls[k])

C2_Witness ==
    /\ Len(levelEls) = 2
    /\ \A k \in 1..2 : ValidAnchor(levelEls[k], k)
    /\ LevelLog # {}
    /\ LastLog.fn = "Levels" /\ LastLog.ok /\ Len(LastLog.val) = 2

\* C3: in either extractor, an element whose href index is parsed and
\* differs from the number of entries appended so far plus one ends the
\* extraction with SequenceGapError at that element (an index of 0, a
\* repeated index and a skipped index alike).
C3_GapFails ==
    /\ \A j \in LevelLog : \A k \in 1..log[j].at :
          (HrefHasSomeIndex(levelEls[k].href) /\ ~HrefHasIndex(levelEls[k].href, k))
             => ~log[j].ok /\ log[j].at = k /\ log[j].err = "SequenceGapError"
    /\ \A j \in ProblemLog : \A k \in 1..log[j].at :
          (/\ OneStatus(cellEls[k]) /\ OneAnchorKid(cellEls[k])
           /\ HrefHasSomeIndex(cellEls[k].kids[1].href)
           /\ ~HrefHasIndex(cellEls[k].kids[1].href, k))
             => ~log[j].ok /\ log[j].at = k /\ log[j].err = "SequenceGapError"
    /\ (pc = "exit" /\ ~LastLog.ok /\ LastLog.err = "SequenceGapError") =>
          level # (IF LastLog.fn = "Levels" THEN Len(levels) ELSE Len(problems)) + 1

C3_Witness ==
    /\ pc = "exit" /\ LastLog.fn = "Levels" /\ LastLog.at = 1
    /\ LastLog.err = "SequenceGapError"
    /\ HrefHasIndex(levelEls[1].href, 2) /\ level = 2 /\ levels = <<>>

\* C4: both extractors are fail-fast: a collection is returned only if every
\* element validates; a call that meets an element failing a check ends in
\* an error at the first such element, returns no collection, and takes no
\* later element from its iterator.
C4_FailFast ==
    /\ \A j \in LevelLog :
          /\ log[j].ok =>
                /\ log[j].at = Len(levelEls) /\ Len(log[j].val) = Len(levelEls)
                /\ \A k \in 1..Len(levelEls) : ValidAnchor(levelEls[k], k)
          /\ ~log[j].ok =>
                /\ log[j].val = <<>>
                /\ log[j].at = Len(levelEls)
                /\ ~ValidAnchor(levelEls[log[j].at], log[j].at)
                /\ \A k \in 1..(log[j].at - 1) : ValidAnchor(levelEls[k], k)
    /\ \A j \in ProblemLog :
          /\ log[j].ok =>
                /\ log[j].at = Len(cellEls) /\ Len(log[j].val) = Len(cellEls)
                /\ \A k \in 1..Len(cellEls) : ValidCell(cellEls[k], k)
          /\ ~log[j].ok =>
                /\ log[j].val = <<>>
                /\ log[j].at = Len(cellEls)
                /\ ~ValidCell(cellEls[log[j].at], log[j].at)
                /\ \A k \in 1..(log[j].at - 1) : ValidCell(cellEls[k], k)

C4_Witness ==
    /\ pc = "exit" /\ LastLog.fn = "Problems" /\ ~LastLog.ok
    /\ LastLog.at = 2 /\ Len(problems) = 1 /\ LastLog.val = <<>>
    /\ Len(cellEls) = 2

\* the text of a non-negative integer as str::parse reads one: decimal
\* digits, at least one, after an optional '+'
Unsigned(str) == IF str # <<>> /\ str[1] = "+" THEN Tail(str) ELSE str

IntegerText(str) ==
    Unsigned(str) # <<>> /\ \A i \in DOMAIN Unsigned(str) : IsDigit(Unsigned(str)[i])

RECURSIVE Pow10(_)
Pow10(n) == IF n = 0 THEN 1 ELSE 10 * Pow10(n - 1)

\* v is the number whose decimal digits (leading zeros allowed) are d
IsValueOf(v, d) ==
    /\ v >= 0 /\ v < Pow10(Len(d))
    /\ \A i \in DOMAIN d : (v \div Pow10(Len(d) - i)) % 10 = DigitVal(d[i])

\* C5: for every input string the parser returns SplitFailed (FormatError)
\* iff the string does not hold exactly one '='; otherwise ParseFailed
\* (NumericError) iff the part after the '=' is not the text of a
\* non-negative integer (the empty part included); otherwise that integer.
C5_ParserContract ==
    linkResult # <<>> =>
       LET r == linkResult[1]
           h == link.href
       IN  /\ (~r.ok /\ r.err = "SplitFailed") <=> (EqualsSigns(h) # 1)
           /\ EqualsSigns(h) = 1 =>
                 LET i == CHOOSE i \in DOMAIN h : h[i] = "="
                     second == SubSeq(h, i + 1, Len(h))
                 IN  /\ (~r.ok /\ r.err = "ParseFailed") <=> ~IntegerText(second)
                     /\ IntegerText(second) =>
                           r.ok /\ IsValueOf(r.val, Unsigned(second))
                     /\ second = <<>> => ~r.ok

C5_Witness ==
    /\ link.href = <<"p", "=", "1", "7">>
    /\ linkResult = <<LinkOk(17)>>

\* C6: the solved flag of a cell is a function of its class set only: with
\* problem_solved and without problem_unsolved it is true, with
\* problem_unsolved and without problem_solved it is false, with both or
\* neither the extraction fails with AmbiguousOrMissingStatusError at that
\* cell; other classes neither fail the cell nor change the flag, in
\* whatever order the classes are visited.
C6_StatusFromClasses ==
    /\ pc \in {"P_match", "P_link"} =>
          LET cs == problem_el.classes
          IN  /\ OneStatus(problem_el)
              /\ solved = <<"problem_solved" \in cs>>
              /\ warns = cs \ {"problem_solved", "problem_unsolved"}
    /\ \A j \in ProblemLog : \A k \in 1..log[j].at :
          /\ ~OneStatus(cellEls[k]) =>
                /\ ~log[j].ok /\ log[j].at = k
                /\ log[j].err = "AmbiguousOrMissingStatusError"
          /\ (~log[j].ok /\ log[j].at = k
              /\ log[j].err = "AmbiguousOrMissingStatusError")
                => ~OneStatus(cellEls[k])
          /\ log[j].ok =>
                log[j].val[k] = ("problem_solved" \in cellEls[k].classes)

C6_Witness ==
    /\ pc = "P_for" /\ pos = 2
    /\ cellEls[1].classes = {"problem_solved", "extra-style"}
    /\ cellEls[2].classes = {"problem_unsolved", "extra-style"}
    /\ problems = <<TRUE, FALSE>>
    /\ warns = {"extra-style"}

\* C7 as stated: for an anchor with a valid in-sequence href (and two
\* children, the first an element), tag div gives completed = false, img
\* gives completed = true, and any other tag ends the extraction with
\* UnrecognizedCompletionMarkerError, whatever the second child looks like.
C7_AsStated ==
    \A j \in LevelLog : \A k \in 1..log[j].at :
       (HrefHasIndex(levelEls[k].href, k) /\ TwoKidsFirstElement(levelEls[k])) =>
          /\ log[j].ok => log[j].val[k].completed = (levelEls[k].kids[1].name = "img")
          /\ ~MarkerKnown(levelEls[k]) =>
                /\ ~log[j].ok /\ log[j].at = k
                /\ log[j].err = "UnrecognizedCompletionMarkerError"

\* C7, amended: for such an anchor whose second child has the expected
\* description shape, tag div gives completed = false, img gives
\* completed = true, and any other tag ends the extraction with
\* UnrecognizedCompletionMarkerError; when the second child has not that
\* shape the extraction ends with UnrecognizedDescriptionFormatError,
\* whatever the first child's tag is.
C7_MarkerAfterDescription ==
    \A j \in LevelLog : \A k \in 1..log[j].at :
       (HrefHasIndex(levelEls[k].href, k) /\ TwoKidsFirstElement(levelEls[k])) =>
          /\ log[j].ok => log[j].val[k].completed = (levelEls[k].kids[1].name = "img")
          /\ (DescShape(levelEls[k]) /\ ~MarkerKnown(levelEls[k])) =>
                /\ ~log[j].ok /\ log[j].at = k
                /\ log[j].err = "UnrecognizedCompletionMarkerError"
          /\ ~DescShape(levelEls[k]) =>
                /\ ~log[j].ok /\ log[j].at = k
                /\ log[j].err = "UnrecognizedDescriptionFormatError"

C7_Witness ==
    /\ pc = "exit" /\ LastLog.fn = "Levels" /\ LastLog.at = 2
    /\ LastLog.err = "UnrecognizedCompletionMarkerError"
    /\ levelEls[2].kids[1].name = "span" /\ DescShape(levelEls[2])
    /\ levels = <<[description |-> "beta", completed |-> TRUE]>>

\* C8: for an anchor that reaches the match on its children (in-sequence
\* href, two children, the first an element), the Level's description is the
\* content of the text node that is the second of exactly two children of
\* the second child, the first a div element; any other shape ends the
\* extraction with UnrecognizedDescriptionFormatError and no Level is
\* appended for that anchor.
C8_Description ==
    /\ \A j \in LevelLog : \A k \in 1..log[j].at :
          (HrefHasIndex(levelEls[k].href, k) /\ TwoKidsFirstElement(levelEls[k])) =>
             /\ log[j].ok =>
                   /\ DescShape(levelEls[k])
                   /\ log[j].val[k].description = levelEls[k].kids[2].kids[2].text
             /\ ~DescShape(levelEls[k]) =>
                   /\ ~log[j].ok /\ log[j].at = k /\ log[j].val = <<>>
                   /\ log[j].err = "UnrecognizedDescriptionFormatError"
    /\ (pc = "exit" /\ LastLog.err = "UnrecognizedDescriptionFormatError") =>
          Len(levels) = pos - 1

C8_Witness ==
    /\ pc = "exit" /\ LastLog.fn = "Levels" /\ LastLog.at = 2
    /\ LastLog.err = "UnrecognizedDescriptionFormatError"
    /\ levelEls[2].kids[2].kids = <<Leaf("span"), Tx("alpha")>>
    /\ Len(levels) = 1

Outcome(e) == <<e.ok, e.err, e.at, e.val>>

\* C9: extraction is deterministic and keeps nothing between calls: two
\* calls of the same extractor on the same elements end alike (the same
\* collection or the same error at the same element), and each call counts
\* only its own entries, whatever an earlier call or the other extractor
\* has accumulated.
C9_Deterministic ==
    /\ \A i \in DOMAIN log : \A j \in DOMAIN log :
          log[i].fn = log[j].fn => Outcome(log[i]) = Outcome(log[j])
    /\ pc = "L_for" => Len(levels) = pos
    /\ pc = "P_for" => Len(problems) = pos

C9_Witness ==
    /\ Len(log) = 4 /\ run = 2
    /\ log[2].fn = "Problems" /\ log[4].fn = "Problems"
    /\ log[1].ok /\ Len(log[1].val) = 1
    /\ log[4].ok /\ Len(log[4].val) = 1

\* C10: within one cell the checks come in the order class status, child
\* structure, href index: the error of a failed call is that of the first
\* check its last cell fails; a status or structure failure leaves the
\* cell's href unparsed; and the boolean is appended only after all checks.
C10_CheckOrder ==
    /\ \A j \in ProblemLog :
          ~log[j].ok => log[j].err = CellError(cellEls[log[j].at], log[j].at)
    /\ pc \in {"P_class", "P_match", "P_link"} =>
          linksParsed = pos - 1 /\ Len(problems) = pos - 1
    /\ (pc = "exit" /\ LastLog.fn = "Problems" /\ ~LastLog.ok) =>
          /\ Len(problems) = pos - 1
          /\ LastLog.err \in {"AmbiguousOrMissingStatusError",
                              "UnrecognizedCellStructureError",
                              "MissingAttributeError"}
                => linksParsed = pos - 1

C10_Witness ==
    /\ pc = "exit" /\ LastLog.fn = "Problems" /\ pos = 2
    /\ LastLog.err = "AmbiguousOrMissingStatusError"
    /\ ~OneAnchorKid(cellEls[2])
    /\ linksParsed = 1 /\ problems = <<TRUE>>

====
